---- MODULE Spec2Model ----
(***************************************************************************)
(* Poco::Data::Column (Data/include/Poco/Data/Column.h): the generic       *)
(* Column<T,C>, the Column<bool, std::vector<bool> > specialization with   *)
(* its companion deque, and the Column<T, std::list<T> > specialization.   *)
(*                                                                         *)
(* A Column object is a slot c with a MetaColumn value meta[c], a shared   *)
(* pointer pData[c] to a container, and (vector<bool> variant) the mutable *)
(* member deque[c].  Containers live in store[s]; rc[s] is the reference   *)
(* counter of the SharedPtr family that owns container s and del[s] counts *)
(* how often the container was deleted.  Elements are booleans in every    *)
(* variant, so that the three variants can be compared on equal content.   *)
(* Rows are std::size_t values; the width is scaled down to SizeBits bits. *)
(***************************************************************************)
EXTENDS Integers, Sequences, FiniteSets, TLC

\* ---------------------------------------------------------------- bounds
MaxLen == 3
MaxShareLen == 1
MaxCols == 3
MaxStores == 2
SizeBits == 4

SizeMod == 2 ^ SizeBits
SizeMax == SizeMod - 1

Variants == {"generic", "bool", "list"}
Cols == 1 .. MaxCols
\* the two Column objects of Spec: a column and its copy, or the operands of
\* operator = and swap
Pair == {1, 2}
Stores == 1 .. MaxStores
Null == 0
NoMeta == [name |-> "", position |-> 0]
Rows == (0 .. MaxLen) \cup {SizeMax}

RECURSIVE SeqsUpTo(_)
SeqsUpTo(n) ==
    IF n = 0 THEN {<< >>}
    ELSE LET S == SeqsUpTo(n - 1)
         IN  S \cup {Append(s, b) : s \in {t \in S : Len(t) = n - 1}, b \in BOOLEAN}

VARIABLES
    variant,    \* which of the three class templates the columns instantiate
    live,       \* live[c]: the Column object c exists
    meta,       \* _metaColumn
    pData,      \* _pData (a store, or Null)
    deque,      \* _deque (vector<bool> variant only)
    store,      \* the containers
    rc,         \* SharedPtr reference counters
    del,        \* number of times each container was deleted
    cap,        \* how long the callers of data() let a container grow
    hist,       \* per container: what happened to it since construction/reset
    twins,      \* pairs of columns one of which was made as a copy of the other
    last        \* the last operation and its outcome

vars == <<variant, live, meta, pData, deque, store, rc, del, cap, hist, twins, last>>

\* ------------------------------------------------------ the last operation
NoOp == [op |-> "none", col |-> 0, src |-> 0, row |-> 0, res |-> "none", val |-> FALSE]

Did(o, c, s) == [NoOp EXCEPT !.op = o, !.col = c, !.src = s]

Returned(c, row, r) ==
    [op |-> "value", col |-> c, src |-> 0, row |-> row, res |-> r.res, val |-> r.val]

\* MetaColumn given to the column constructed over container s
MetaOf(s) == [name |-> "col", position |-> s]

\* ------------------------------------------------------------- containers
\* std::vector / std::deque resize(n): keeps the elements, value-initializes new ones
Resize(q, n) == [i \in 1 .. n |-> IF i <= Len(q) THEN q[i] ELSE FALSE]

Ok(v, dq) == [res |-> "ok", val |-> v, deque |-> dq]
RangeException(dq) == [res |-> "RangeException", val |-> FALSE, deque |-> dq]

\* Column<T,C>::value: _pData->at(row), std::out_of_range rethrown as RangeException
value_generic(dq, data, row) ==
    IF row < Len(data) THEN Ok(data[row + 1], dq) ELSE RangeException(dq)

\* a value() that hands out the shadow slot without reading the container
value_bool_shadow_only(dq, data, row) ==
    LET d1 == IF Len(dq) < Len(data) THEN Resize(dq, Len(data)) ELSE dq
    IN  IF row < Len(d1) THEN Ok(d1[row + 1], d1) ELSE RangeException(d1)

\* a value() that resizes the shadow deque whenever the sizes differ
value_bool_resize_always(dq, data, row) ==
    LET d1 == IF Len(dq) # Len(data) THEN Resize(dq, Len(data)) ELSE dq
    IN  IF row < Len(data) /\ row < Len(d1)
        THEN Ok(data[row + 1], [d1 EXCEPT ![row + 1] = data[row + 1]])
        ELSE RangeException(d1)

\* a value() that does not grow the shadow deque first
value_bool_no_resize(dq, data, row) ==
    IF row < Len(data) /\ row < Len(dq)
    THEN Ok(data[row + 1], [dq EXCEPT ![row + 1] = data[row + 1]])
    ELSE RangeException(dq)

\* a value() that indexes the container from its end
value_bool_from_end(dq, data, row) ==
    LET d1 == IF Len(dq) < Len(data) THEN Resize(dq, Len(data)) ELSE dq
    IN  IF row < Len(data) /\ row < Len(d1)
        THEN Ok(data[Len(data) - row], [d1 EXCEPT ![row + 1] = data[Len(data) - row]])
        ELSE RangeException(d1)

\* Column<bool, vector<bool> >::value
value_bool(dq, data, row) ==
    LET d1 == IF Len(dq) < Len(data) THEN Resize(dq, Len(data)) ELSE dq
    IN  IF row < Len(data) /\ row < Len(d1)
        THEN Ok(data[row + 1], [d1 EXCEPT ![row + 1] = data[row + 1]])
        ELSE RangeException(d1)

\* for (int i = 0; it != end; ++it, ++i) if (i == row) return *it;
RECURSIVE forward(_, _, _)
forward(data, i, row) ==
    IF i >= Len(data) THEN [found |-> FALSE, val |-> FALSE]
    ELSE IF i % SizeMod = row THEN [found |-> TRUE, val |-> data[i + 1]]
    ELSE forward(data, i + 1, row)

\* for (int i = 1; it != end; ++it, ++i) if (i == row) return *it;   (reverse iterators)
RECURSIVE backward(_, _, _)
backward(data, i, row) ==
    IF i > Len(data) THEN [found |-> FALSE, val |-> FALSE]
    ELSE IF i % SizeMod = row THEN [found |-> TRUE, val |-> data[Len(data) - i + 1]]
    ELSE backward(data, i + 1, row)

\* a comparison that sends the middle row to the backward walk
first_half_strict(n, row) == row < n \div 2

\* if (row <= (std::size_t) (_pData->size() / 2))
first_half(n, row) == row <= n \div 2

\* a value() whose backward walk counts to row, not to size - row
value_list_no_mirror(dq, data, row) ==
    LET n == Len(data)
        w == IF first_half(n, row) THEN forward(data, 0, row) ELSE backward(data, 1, row)
    IN  IF w.found THEN Ok(w.val, dq) ELSE RangeException(dq)

\* Column<T, list<T> >::value
value_list(dq, data, row) ==
    LET n == Len(data)
        w == IF first_half(n, row)
             THEN forward(data, 0, row)
             ELSE backward(data, 1, (n - row) % SizeMod)
    IN  IF w.found THEN Ok(w.val, dq) ELSE RangeException(dq)

value(v, dq, data, row) ==
    CASE v = "generic" -> value_generic(dq, data, row)
      [] v = "bool"    -> value_bool(dq, data, row)
      [] v = "list"    -> value_list(dq, data, row)

\* the container a column points to
Data(c) == store[pData[c]]

\* rowCount(): _pData->size()
rowCount(c) == Len(store[pData[c]])

\* _deque.assign(_pData->begin(), _pData->end()) in the vector<bool> constructors
ShadowOf(data) == IF variant = "bool" THEN data ELSE << >>

\* nothing is known about a container's past
Void == [kind |-> "void", seq |-> << >>]

\* ------------------------------------------------------------------ Init
Blank ==
    /\ live = [c \in Cols |-> FALSE]
    /\ meta = [c \in Cols |-> NoMeta]
    /\ pData = [c \in Cols |-> Null]
    /\ deque = [c \in Cols |-> << >>]
    /\ store = [s \in Stores |-> << >>]
    /\ rc = [s \in Stores |-> 0]
    /\ del = [s \in Stores |-> 0]
    /\ hist = [s \in Stores |-> Void]
    /\ twins = {}
    /\ last = NoOp

\* --------------------------------------------------------------- SharedPtr
\* SharedPtr(const SharedPtr&): one more owner of container s
Acquire(rcf, s) == [rcf EXCEPT ![s] = @ + 1]

\* ~SharedPtr(): one owner less; the last owner deletes the container
ReleaseRc(rcf, s) == [rcf EXCEPT ![s] = @ - 1]

ReleaseDel(rcf, delf, s) == IF rcf[s] - 1 = 0 THEN [delf EXCEPT ![s] = @ + 1] ELSE delf

\* a container that was never handed to a Column
Unused(s) == rc[s] = 0 /\ del[s] = 0

FreshStore == IF \E s \in Stores : Unused(s)
              THEN {CHOOSE s \in Stores : Unused(s) /\ \A t \in Stores : Unused(t) => s <= t}
              ELSE {}

\* ------------------------------------------------------------- bookkeeping
PairsOf(c) == {p \in twins : c \in p}

\* c becomes a copy of src: it shares whatever src shares
AsCopy(tw, c, src) ==
    (tw \ {p \in tw : c \in p})
        \cup {{c, src}}
        \cup {{c, x} : x \in {y \in Cols : y # c /\ {src, y} \in tw}}

Renamed(tw, a, b) ==
    LET r(x) == IF x = a THEN b ELSE IF x = b THEN a ELSE x
    IN  {{r(x) : x \in p} : p \in tw}

Appended(h, v) == IF h.kind = "reset" THEN [h EXCEPT !.seq = Append(@, v)] ELSE h

\* ---------------------------------------------------------------- actions
\* a constructor without poco_check_ptr
Construct_unchecked(c, m, p, d) ==
    /\ ~live[c]
    /\ live' = [live EXCEPT ![c] = TRUE]
    /\ meta' = [meta EXCEPT ![c] = m]
    /\ pData' = [pData EXCEPT ![c] = p]
    /\ store' = IF p = Null THEN store ELSE [store EXCEPT ![p] = d]
    /\ rc' = IF p = Null THEN rc ELSE [rc EXCEPT ![p] = 1]
    /\ deque' = [deque EXCEPT ![c] = ShadowOf(d)]
    /\ hist' = IF p = Null THEN hist ELSE [hist EXCEPT ![p] = [kind |-> "ctor", seq |-> d]]
    /\ last' = [Did("construct", c, 0) EXCEPT !.res = "ok"]
    /\ UNCHANGED <<variant, del, cap, twins>>

\* Column(const MetaColumn&, C* pData)
Construct(c, m, p, d) ==
    /\ ~live[c]
    /\ IF p = Null
       THEN /\ last' = [Did("construct", c, 0) EXCEPT !.res = "NullPointer"]
            /\ UNCHANGED <<live, meta, pData, deque, store, rc, del, hist>>
       ELSE /\ live' = [live EXCEPT ![c] = TRUE]
            /\ meta' = [meta EXCEPT ![c] = m]
            /\ pData' = [pData EXCEPT ![c] = p]
            /\ store' = [store EXCEPT ![p] = d]
            /\ rc' = [rc EXCEPT ![p] = 1]
            /\ deque' = [deque EXCEPT ![c] = ShadowOf(d)]
            /\ hist' = [hist EXCEPT ![p] = [kind |-> "ctor", seq |-> d]]
            /\ last' = [Did("construct", c, 0) EXCEPT !.res = "ok"]
            /\ UNCHANGED del
    /\ UNCHANGED <<variant, cap, twins>>

\* a copy constructor that clones the container instead of sharing it
Copy_deep(c, src) ==
    /\ ~live[c]
    /\ live[src]
    /\ \E s \in FreshStore :
          /\ pData' = [pData EXCEPT ![c] = s]
          /\ store' = [store EXCEPT ![s] = Data(src)]
          /\ rc' = [rc EXCEPT ![s] = 1]
    /\ live' = [live EXCEPT ![c] = TRUE]
    /\ meta' = [meta EXCEPT ![c] = meta[src]]
    /\ deque' = [deque EXCEPT ![c] = ShadowOf(Data(src))]
    /\ twins' = AsCopy(twins, c, src)
    /\ last' = Did("copy", c, src)
    /\ UNCHANGED <<variant, del, cap, hist>>

\* Column(const Column& col)
Copy(c, src) ==
    /\ ~live[c]
    /\ live[src]
    /\ live' = [live EXCEPT ![c] = TRUE]
    /\ meta' = [meta EXCEPT ![c] = meta[src]]
    /\ pData' = [pData EXCEPT ![c] = pData[src]]
    /\ rc' = Acquire(rc, pData[src])
    /\ deque' = [deque EXCEPT ![c] = ShadowOf(Data(src))]
    /\ twins' = AsCopy(twins, c, src)
    /\ last' = Did("copy", c, src)
    /\ UNCHANGED <<variant, store, del, cap, hist>>

\* operator = (const Column& col): Column tmp(col); swap(tmp); then tmp is destroyed
Assign(c, src) ==
    /\ live[c]
    /\ live[src]
    /\ LET old == pData[c]
           rc1 == Acquire(rc, pData[src])
       IN  /\ meta' = [meta EXCEPT ![c] = meta[src]]
           /\ pData' = [pData EXCEPT ![c] = pData[src]]
           /\ deque' = [deque EXCEPT ![c] = ShadowOf(Data(src))]
           /\ rc' = ReleaseRc(rc1, old)
           /\ del' = ReleaseDel(rc1, del, old)
    /\ twins' = IF c = src THEN twins ELSE AsCopy(twins, c, src)
    /\ last' = Did("assign", c, src)
    /\ UNCHANGED <<variant, live, store, cap, hist>>

\* a swap() that exchanges the metadata and leaves the handles where they are
swap_meta_only(c, other) ==
    /\ live[c]
    /\ live[other]
    /\ c # other
    /\ meta' = [meta EXCEPT ![c] = meta[other], ![other] = meta[c]]
    /\ deque' = [deque EXCEPT ![c] = deque[other], ![other] = deque[c]]
    /\ twins' = Renamed(twins, c, other)
    /\ last' = Did("swap", c, other)
    /\ UNCHANGED <<variant, live, pData, store, rc, del, cap, hist>>

\* swap(Column& other)
swap(c, other) ==
    /\ live[c]
    /\ live[other]
    /\ c # other
    /\ meta' = [meta EXCEPT ![c] = meta[other], ![other] = meta[c]]
    /\ pData' = [pData EXCEPT ![c] = pData[other], ![other] = pData[c]]
    /\ deque' = [deque EXCEPT ![c] = deque[other], ![other] = deque[c]]
    /\ twins' = Renamed(twins, c, other)
    /\ last' = Did("swap", c, other)
    /\ UNCHANGED <<variant, live, store, rc, del, cap, hist>>

\* ~Column()
Destroy(c) ==
    /\ live[c]
    /\ live' = [live EXCEPT ![c] = FALSE]
    /\ meta' = [meta EXCEPT ![c] = NoMeta]
    /\ pData' = [pData EXCEPT ![c] = Null]
    /\ deque' = [deque EXCEPT ![c] = << >>]
    /\ rc' = ReleaseRc(rc, pData[c])
    /\ del' = ReleaseDel(rc, del, pData[c])
    /\ twins' = twins \ PairsOf(c)
    /\ last' = Did("destroy", c, 0)
    /\ UNCHANGED <<variant, store, cap, hist>>

\* value(row) and operator [] (row)
ValueCall(c, row) ==
    /\ live[c]
    /\ LET r == value(variant, deque[c], Data(c), row)
       IN  /\ deque' = [deque EXCEPT ![c] = r.deque]
           /\ last' = Returned(c, row, r)
    /\ UNCHANGED <<variant, live, meta, pData, store, rc, del, cap, hist, twins>>

\* a reset() that empties a temporary, not the container
reset_keeps_store(c) ==
    /\ live[c]
    /\ deque' = [deque EXCEPT ![c] = << >>]
    /\ hist' = [hist EXCEPT ![pData[c]] = [kind |-> "reset", seq |-> << >>]]
    /\ last' = Did("reset", c, 0)
    /\ UNCHANGED <<variant, live, meta, pData, store, rc, del, cap, twins>>

\* reset()
reset(c) ==
    /\ live[c]
    /\ store' = [store EXCEPT ![pData[c]] = << >>]
    /\ deque' = [deque EXCEPT ![c] = << >>]
    /\ hist' = [hist EXCEPT ![pData[c]] = [kind |-> "reset", seq |-> << >>]]
    /\ last' = Did("reset", c, 0)
    /\ UNCHANGED <<variant, live, meta, pData, rc, del, cap, twins>>

\* data().push_back(v)
PushBack(c, v) ==
    /\ live[c]
    /\ Len(Data(c)) < cap
    /\ store' = [store EXCEPT ![pData[c]] = Append(@, v)]
    /\ hist' = [hist EXCEPT ![pData[c]] = Appended(@, v)]
    /\ last' = Did("data", 0, 0)
    /\ UNCHANGED <<variant, live, meta, pData, deque, rc, del, cap, twins>>

\* data().pop_back()
PopBack(c) ==
    /\ live[c]
    /\ Len(Data(c)) > 0
    /\ store' = [store EXCEPT ![pData[c]] = SubSeq(@, 1, Len(@) - 1)]
    /\ hist' = [hist EXCEPT ![pData[c]] = Void]
    /\ last' = Did("data", 0, 0)
    /\ UNCHANGED <<variant, live, meta, pData, deque, rc, del, cap, twins>>

\* data()[i] = v   (i counted from 0)
SetAt(c, i, v) ==
    /\ live[c]
    /\ i < Len(Data(c))
    /\ Data(c)[i + 1] # v
    /\ store' = [store EXCEPT ![pData[c]][i + 1] = v]
    /\ hist' = [hist EXCEPT ![pData[c]] = Void]
    /\ last' = Did("data", 0, 0)
    /\ UNCHANGED <<variant, live, meta, pData, deque, rc, del, cap, twins>>

\* ------------------------------------------------- one container or two
\* The vector<bool> columns each carry a deque of their own, so their containers
\* are kept one element shorter than the others'.
Capacity(v) == IF v = "bool" THEN MaxLen - 1 ELSE MaxLen

\* a column over an empty container that the fetch code then fills; what was
\* appended is recorded in hist from the first reset() on
InitSingle ==
    /\ live = [c \in Cols |-> c = 1]
    /\ meta = [c \in Cols |-> IF c = 1 THEN MetaOf(1) ELSE NoMeta]
    /\ pData = [c \in Cols |-> IF c = 1 THEN 1 ELSE Null]
    /\ deque = [c \in Cols |-> << >>]
    /\ store = [s \in Stores |-> << >>]
    /\ rc = [s \in Stores |-> IF s = 1 THEN 1 ELSE 0]
    /\ del = [s \in Stores |-> 0]
    /\ hist = [s \in Stores |-> Void]
    /\ cap = Capacity(variant)
    /\ twins = {}
    /\ last = NoOp

\* two columns, each over a container of its own
InitPair ==
    /\ \E d1, d2 \in SeqsUpTo(MaxShareLen) :
          /\ store = [s \in Stores |-> IF s = 1 THEN d1 ELSE IF s = 2 THEN d2 ELSE << >>]
          /\ deque = [c \in Cols |-> IF c = 1 THEN ShadowOf(d1)
                                     ELSE IF c = 2 THEN ShadowOf(d2) ELSE << >>]
    /\ hist = [s \in Stores |-> Void]
    /\ live = [c \in Cols |-> c \in Pair]
    /\ meta = [c \in Cols |-> IF c \in Pair THEN MetaOf(c) ELSE NoMeta]
    /\ pData = [c \in Cols |-> IF c \in Pair THEN c ELSE Null]
    /\ rc = [s \in Stores |-> IF s \in Pair THEN 1 ELSE 0]
    /\ del = [s \in Stores |-> 0]
    /\ cap = MaxShareLen
    /\ twins = {}
    /\ last = NoOp

Init ==
    /\ variant \in Variants
    /\ InitSingle \/ InitPair

Next ==
    \/ \E c \in Pair, src \in Pair : Copy(c, src)
    \/ \E c \in Pair, src \in Pair : Assign(c, src)
    \/ \E c \in Pair, other \in Pair : swap(c, other)
    \/ \E c \in Pair : Destroy(c)
    \/ \E c \in Pair, row \in Rows : ValueCall(c, row)
    \/ \E c \in Pair : reset(c)
    \/ \E c \in Pair, v \in BOOLEAN : PushBack(c, v)
    \/ \E c \in Pair : PopBack(c)
    \/ \E c \in Pair, i \in 0 .. MaxLen - 1, v \in BOOLEAN : SetAt(c, i, v)

Spec == Init /\ [][Next]_vars

\* ------------------------------------------ construction and destruction
OwnContent(s) == IF s % 2 = 1 THEN <<TRUE>> ELSE <<FALSE, TRUE>>

InitOwn ==
    /\ variant \in Variants
    /\ Blank
    /\ cap = 0

NextOwn ==
    \/ \E c \in Cols, p \in FreshStore \cup {Null} : Construct(c, MetaOf(p), p, OwnContent(p))
    \/ \E c \in Cols, src \in Cols : Copy(c, src)
    \/ \E c \in Cols, src \in Cols : Assign(c, src)
    \/ \E c \in Cols, other \in Cols : swap(c, other)
    \/ \E c \in Cols : Destroy(c)

SpecOwn == InitOwn /\ [][NextOwn]_vars

\* ------------------------------- a vector<bool> column read row by row
InitRoundTrip ==
    /\ variant = "bool"
    /\ \E d \in SeqsUpTo(MaxLen) :
          /\ store = [s \in Stores |-> IF s = 1 THEN d ELSE << >>]
          /\ deque = [c \in Cols |-> IF c = 1 THEN d ELSE << >>]
          /\ hist = [s \in Stores |-> IF s = 1 THEN [kind |-> "ctor", seq |-> d] ELSE Void]
    /\ live = [c \in Cols |-> c = 1]
    /\ meta = [c \in Cols |-> IF c = 1 THEN MetaOf(1) ELSE NoMeta]
    /\ pData = [c \in Cols |-> IF c = 1 THEN 1 ELSE Null]
    /\ rc = [s \in Stores |-> IF s = 1 THEN 1 ELSE 0]
    /\ del = [s \in Stores |-> 0]
    /\ cap = MaxLen
    /\ twins = {}
    /\ last = NoOp

NextRoundTrip ==
    \/ \E row \in Rows : ValueCall(1, row)
    \/ \E v \in BOOLEAN : PushBack(1, v)

SpecRoundTrip == InitRoundTrip /\ [][NextRoundTrip]_vars

\* ------------------------------------------------------------------ claims
LiveCols == {c \in Cols : live[c]}

\* what a caller of c.value(row) gets in the current state
Observed(c, row) ==
    LET r == value(variant, deque[c], Data(c), row) IN <<r.res, r.val>>

\* what each class template returns over the content of column c
ByVariant(v, c, row) ==
    LET r == value(v, IF variant = "bool" THEN deque[c] ELSE Data(c), Data(c), row)
    IN  <<r.res, r.val>>

\* C1: a value(row) call with row < rowCount() returns the element the container
\* holds at row and does not throw; over equal content the generic, vector<bool>
\* and list columns return the same value for every such row.
C1_ValueReturnsStoredElement ==
    /\ (last.op = "value" /\ last.row < rowCount(last.col))
          => /\ last.res = "ok"
             /\ last.val = Data(last.col)[last.row + 1]
    /\ \A c \in LiveCols : \A row \in Rows :
          row < rowCount(c)
             => /\ ByVariant("generic", c, row) = <<"ok", Data(c)[row + 1]>>
                /\ ByVariant("bool", c, row) = ByVariant("generic", c, row)
                /\ ByVariant("list", c, row) = ByVariant("generic", c, row)

\* a list column returned the element of a row in the second half, which differs
\* from the element the same count from the head
C1_Witness ==
    /\ variant = "list"
    /\ last.op = "value" /\ last.res = "ok"
    /\ ~first_half(rowCount(last.col), last.row)
    /\ last.val # Data(last.col)[rowCount(last.col) - last.row]

\* C2: a value(row) call with row >= rowCount() throws RangeException, whatever
\* the shadow deque holds and however size - row wraps, and leaves the containers,
\* the row counts, the handles and the metadata as they were.
C2_OutOfRangeThrows ==
    [][(last'.op = "value" /\ last'.row >= rowCount(last'.col))
          => /\ last'.res = "RangeException"
             /\ store' = store
             /\ pData' = pData
             /\ meta' = meta
             /\ live' = live
             /\ \A c \in LiveCols : rowCount(c)' = rowCount(c)]_vars

\* a vector<bool> column whose container was emptied by reset() while its shadow
\* deque still has the slot asked for, and the call threw
C2_Witness ==
    /\ variant = "bool"
    /\ last.op = "value" /\ last.res = "RangeException"
    /\ hist[pData[last.col]].kind = "reset"
    /\ rowCount(last.col) = 0
    /\ last.row < Len(deque[last.col])

\* C3: rowCount() is the number of elements of the container the column points
\* to, whatever happened before, and 0 right after reset().
C3_RowCountIsStoreSize ==
    /\ \A c \in LiveCols : rowCount(c) = Cardinality(DOMAIN Data(c))
    /\ last.op = "reset" => rowCount(last.col) = 0
    /\ \A c \in LiveCols :
          hist[pData[c]].kind = "reset" => rowCount(c) = Len(hist[pData[c]].seq)

\* reset() was called on a column whose copy still has a non-empty shadow deque
C3_Witness ==
    /\ last.op = "reset"
    /\ \E c \in LiveCols : c # last.col /\ pData[c] = pData[last.col] /\ Len(deque[c]) > 1

\* two columns answer every rowCount() and value(row) alike
SameView(a, b) ==
    /\ rowCount(a) = rowCount(b)
    /\ \A row \in Rows : Observed(a, row) = Observed(b, row)

\* C4: a column made by copy construction or assignment answers rowCount() and
\* value(row) as its source does, and it keeps doing so after the container was
\* changed through data() of either of them (vector<bool>: each with its own
\* shadow deque).
C4_CopiesShareTheStore ==
    /\ last.op \in {"copy", "assign"} => SameView(last.col, last.src)
    /\ \A p \in twins : \A a \in p : \A b \in p : SameView(a, b)

\* a vector<bool> column and its copy after the container was changed through
\* data(): their shadow deques differ and one of them is behind the container
C4_Witness ==
    /\ variant = "bool"
    /\ last.op = "data"
    /\ \E p \in twins : \E a \in p : \E b \in p :
          /\ deque[a] # deque[b]
          /\ Len(deque[a]) < rowCount(a)
          /\ rowCount(b) > 0

\* C5: after reset() and k elements appended through data(), rowCount() is k,
\* value(i) returns the i-th appended element for i < k and value(k) and beyond
\* throw RangeException; no element from before the reset comes back.
C5_ResetThenRefill ==
    \A c \in LiveCols :
        LET h == hist[pData[c]]
            k == Len(h.seq)
        IN  h.kind = "reset"
               => /\ rowCount(c) = k
                  /\ \A row \in Rows :
                        Observed(c, row) = IF row < k THEN <<"ok", h.seq[row + 1]>>
                                           ELSE <<"RangeException", FALSE>>
                  /\ (last.op = "value" /\ last.col = c)
                        => <<last.res, last.val>> =
                               IF last.row < k THEN <<"ok", h.seq[last.row + 1]>>
                               ELSE <<"RangeException", FALSE>>

\* a vector<bool> column returned the second of two elements appended after reset()
C5_Witness ==
    /\ variant = "bool"
    /\ last.op = "value" /\ last.res = "ok" /\ last.row = 1
    /\ hist[pData[last.col]].kind = "reset"
    /\ Len(hist[pData[last.col]].seq) = 2

\* C6: a vector<bool> column constructed over N elements, read in any order while
\* elements are appended through data(): value(i) for i < N returns the element
\* the container holds at i, which is the i-th element it was constructed with,
\* and the shadow slot handed out holds it.
C6_BoolRoundTrip ==
    (last.op = "value" /\ hist[1].kind = "ctor" /\ last.row < Len(hist[1].seq))
        => /\ last.res = "ok"
           /\ last.val = hist[1].seq[last.row + 1]
           /\ last.val = Data(1)[last.row + 1]
           /\ deque[1][last.row + 1] = last.val
           /\ Len(deque[1]) = rowCount(1)

\* the last of the original elements was read after the container had grown
C6_Witness ==
    /\ last.op = "value" /\ last.res = "ok"
    /\ Len(hist[1].seq) >= 2
    /\ last.row = Len(hist[1].seq) - 1
    /\ rowCount(1) > Len(hist[1].seq)
    /\ last.val # Data(1)[1]

\* a = b, seen from before and after the step
AssignedFrom(a, b) ==
    /\ meta'[a] = meta[b]
    /\ pData'[a] = pData[b]
    /\ deque'[a] = ShadowOf(store[pData[b]])
    /\ store' = store
    /\ live' = live
    /\ \A c \in Cols \ {a} : meta'[c] = meta[c] /\ pData'[c] = pData[c] /\ deque'[c] = deque[c]

\* swap(a, b), seen from before and after the step
Exchanged(a, b) ==
    /\ meta'[a] = meta[b] /\ meta'[b] = meta[a]
    /\ pData'[a] = pData[b] /\ pData'[b] = pData[a]
    /\ deque'[a] = deque[b] /\ deque'[b] = deque[a]
    /\ store' = store /\ rc' = rc /\ del' = del
    /\ live' = live
    /\ \A c \in Cols \ {a, b} : meta'[c] = meta[c] /\ pData'[c] = pData[c] /\ deque'[c] = deque[c]

\* every column carries the metadata its container was constructed with
MetaGoesWithStore == \A c \in LiveCols : meta[c] = MetaOf(pData[c])

\* C7 as stated: a = b gives a the metadata and the container of b and leaves b
\* and the container alone, a = a leaves a as it was, swap exchanges metadata,
\* handle and shadow deque together.
C7_AssignAndSwap_AsStated ==
    /\ [][/\ last'.op = "assign" =>
               /\ AssignedFrom(last'.col, last'.src)
               /\ last'.col = last'.src =>
                     /\ deque'[last'.col] = deque[last'.col]
                     /\ rc' = rc /\ del' = del
          /\ last'.op = "swap" => Exchanged(last'.col, last'.src)]_vars
    /\ []MetaGoesWithStore

\* C7, amended: as stated, but a = a of a vector<bool> column replaces the shadow
\* deque of a by a copy of the container's elements; metadata, handle, container
\* and reference count stay as they were.
C7_AssignAndSwap ==
    /\ [][/\ last'.op = "assign" =>
               /\ AssignedFrom(last'.col, last'.src)
               /\ last'.col = last'.src =>
                     /\ meta'[last'.col] = meta[last'.col]
                     /\ pData'[last'.col] = pData[last'.col]
                     /\ deque'[last'.col] = ShadowOf(Data(last'.col))
                     /\ rc' = rc /\ del' = del
          /\ last'.op = "swap" => Exchanged(last'.col, last'.src)]_vars
    /\ []MetaGoesWithStore

\* a vector<bool> column was assigned to itself and its shadow deque, which had
\* a slot per element, now mirrors the container
C7_Witness ==
    /\ variant = "bool"
    /\ last.op = "assign" /\ last.col = last.src
    /\ rowCount(last.col) = 2
    /\ deque[last.col] = Data(last.col)
    /\ Data(last.col)[1] # Data(last.col)[2]

\* the number of live columns that point to container s
Owners(s) == Cardinality({c \in LiveCols : pData[c] = s})

\* C8: every live column points to a container that was not deleted; a null
\* container is refused and no column comes of it; a container is deleted when
\* its last column is destroyed or reassigned, not before, and once.
C8_StoreLivesWithItsColumns ==
    /\ \A c \in LiveCols : pData[c] # Null /\ del[pData[c]] = 0
    /\ \A c \in Cols \ LiveCols : pData[c] = Null
    /\ (last.op = "construct" /\ last.res = "NullPointer") => ~live[last.col]
    /\ (last.op = "construct" /\ last.res = "ok") => live[last.col]
    /\ \A s \in Stores :
          /\ del[s] <= 1
          /\ rc[s] = Owners(s)
          /\ hist[s].kind = "ctor" => (del[s] = 1 <=> Owners(s) = 0)
          /\ hist[s].kind # "ctor" => del[s] = 0

\* an assignment took the last column away from one container, which was deleted,
\* while the other container has two columns
C8_Witness ==
    /\ last.op = "assign"
    /\ \E s \in Stores : del[s] = 1 /\ Owners(s) = 0
    /\ \E s \in Stores : del[s] = 0 /\ Owners(s) = 2

\* the three rows the list walk is probed with
Probes(n) == {0, n - 1, n \div 2}

\* C9 as stated: for every non-empty list column of size n, value(0), value(n-1)
\* and value(n/2) return the element of their row, and between them they take
\* the forward walk and the backward walk.
C9_ListProbes_AsStated ==
    variant = "list" =>
        \A c \in LiveCols :
            LET n == rowCount(c)
            IN  n > 0 =>
                  /\ \A row \in Probes(n) : Observed(c, row) = <<"ok", Data(c)[row + 1]>>
                  /\ \E row \in Probes(n) : first_half(n, row)
                  /\ \E row \in Probes(n) : ~first_half(n, row)

\* C9, amended: the three calls return the element of their row; for n >= 3
\* value(n-1) takes the backward walk (matching at count n - row from the tail)
\* and value(0), value(n/2) the forward walk; for n = 1 and n = 2 all three take
\* the forward walk.
C9_ListProbes ==
    variant = "list" =>
        /\ \A c \in LiveCols :
              LET n == rowCount(c)
              IN  n > 0 =>
                    /\ \A row \in Probes(n) : Observed(c, row) = <<"ok", Data(c)[row + 1]>>
                    /\ first_half(n, 0) /\ first_half(n, n \div 2)
                    /\ ~first_half(n, n - 1) <=> n >= 3
                    /\ ~first_half(n, n - 1) =>
                          backward(Data(c), 1, n - (n - 1)) = [found |-> TRUE, val |-> Data(c)[n]]
        /\ (last.op = "value" /\ last.row < rowCount(last.col))
              => /\ last.res = "ok"
                 /\ last.val = Data(last.col)[last.row + 1]

\* value(n-1) of a list of three returned the last element, which the forward
\* walk would not have found at that count
C9_Witness ==
    /\ variant = "list"
    /\ last.op = "value" /\ last.res = "ok"
    /\ rowCount(last.col) = 3 /\ last.row = 2
    /\ last.val # Data(last.col)[2]
    /\ last.val # Data(last.col)[1]

\* C10: a value(row) call of a vector<bool> column, returning or throwing, leaves
\* the shadow deque at least as long as the container; returning, it wrote slot
\* row with the container's element and no other old slot; throwing, it changed
\* no old slot; containers, handles, metadata and the other columns' shadow
\* deques are as before.
C10_ShadowAfterValue ==
    [][(last'.op = "value" /\ variant = "bool") =>
          LET c == last'.col
              row == last'.row
              old == deque[c]
              new == deque'[c]
          IN  /\ Len(new) >= rowCount(c)
              /\ Len(new) >= Len(old)
              /\ last'.res = "ok" =>
                    /\ new[row + 1] = Data(c)[row + 1]
                    /\ \A i \in 1 .. Len(old) : i # row + 1 => new[i] = old[i]
              /\ last'.res = "RangeException" =>
                    \A i \in 1 .. Len(old) : new[i] = old[i]
              /\ store' = store /\ pData' = pData /\ meta' = meta /\ live' = live
              /\ \A o \in Cols \ {c} : deque'[o] = deque[o]]_vars

\* a call that threw left a shadow deque as long as the container whose slots
\* are not the container's elements
C10_Witness ==
    /\ variant = "bool"
    /\ last.op = "value" /\ last.res = "RangeException"
    /\ rowCount(last.col) = 2
    /\ Len(deque[last.col]) = 2
    /\ deque[last.col] # Data(last.col)

====
